---- MODULE Spec2Model ----
(***************************************************************************)
(* Model of src/github/main.ts: the github-stats command line program.    *)
(* One run of main(): environment checks, the rate-limit guard, the       *)
(* catalog read, the dispatched command (get-member-join-dates or         *)
(* get-developer-stats) and its upsert loop.  Every awaited external call *)
(* is one step; its response is chosen nondeterministically.              *)
(***************************************************************************)
EXTENDS Integers, Sequences, FiniteSets, TLC

\* ------------------------------------------------------------------ bounds
MaxMembers == 2
MaxRepos == 3
NumDates == 3
MaxUsers == 2
MaxRecords == 2

\* ------------------------------------------------------------- data shapes
\* null, undefined and "" are all falsy in the code's tests; one value stands
\* for an absent string.
Null == <<>>

Truthy(s) == s # Null

Logins == {"alice", "bob"}

\* ISO-8601 timestamps are fixed-width strings; here two digits wide.  The
\* i-th date is the decimal numeral of 7*i: 07, 14, 21, 28, ...
DateString(i) == <<(7 * i) \div 10, (7 * i) % 10>>

Dates == {DateString(i) : i \in 1..NumDates}

\* JavaScript's < on strings: lexicographic by code unit, a proper prefix first.
RECURSIVE StringLess(_, _)
StringLess(a, b) ==
    IF b = <<>> THEN FALSE
    ELSE IF a = <<>> THEN TRUE
    ELSE IF Head(a) # Head(b) THEN Head(a) < Head(b)
    ELSE StringLess(Tail(a), Tail(b))

\* Number.parseInt on a string of decimal digits ("" has no digits: NaN, which
\* no caller reaches because "" is replaced by "0" first).
RECURSIVE ParseDigits(_, _)
ParseDigits(text, acc) ==
    IF text = <<>> THEN acc
    ELSE ParseDigits(Tail(text), 10 * acc + Head(text))

parseInt(text) == ParseDigits(text, 0)

\* new Date(isoString): the instant the string denotes.
NewDate(s) == [kind |-> "Date", val |-> parseInt(s)]

StringValue(n) == [kind |-> "string", val |-> n]

EmptyMap == [k \in {} |-> Null]

\* {...a, ...b}: every key of either, b's value on a key of both.
SpreadDropsExisting(a, b) == b

Spread(a, b) ==
    [k \in (DOMAIN a) \cup (DOMAIN b) |-> IF k \in DOMAIN b THEN b[k] ELSE a[k]]

\* ------------------------------------------------------ external responses
\* x-ratelimit-remaining as the platform may send it: absent, or a string.
RemainingHeaders ==
    {[present |-> FALSE, text |-> <<>>]}
        \cup {[present |-> TRUE, text |-> t] : t \in {<<>>, <<0>>, <<7>>, <<1, 0>>}}

NoResponse == [present |-> FALSE, text |-> <<9>>]

\* Catalog entities as getEntities returns them: distinct identifiers, each
\* with a title, an open property bag and a relation bag.
FullProperties ==
    ("team" :> StringValue(1)) @@ ("join_date" :> StringValue(2))
        @@ ("first_commit" :> StringValue(3)) @@ ("first_pr" :> StringValue(4))

ProfileOf ==
    ("alice" :> [properties |-> FullProperties, relations |-> EmptyMap])
        @@ ("bob" :> [properties |-> EmptyMap, relations |-> ("team" :> "platform")])

TitleOf == ("alice" :> "Alice A.") @@ ("bob" :> "Bob B.")

DistinctSeqs(S, n) ==
    UNION {{q \in [1..k -> S] : \A i, j \in 1..k : q[i] = q[j] => i = j} : k \in 0..n}

CatalogSnapshots ==
    {[i \in 1..Len(ids) |->
         [identifier |-> ids[i], title |-> TitleOf[ids[i]],
          properties |-> ProfileOf[ids[i]].properties,
          relations |-> ProfileOf[ids[i]].relations]] :
      ids \in DistinctSeqs(Logins, MaxUsers)}

\* Raw audit-log events (user, user_id, created_at), first page only.
UserIdOf == ("alice" :> 1) @@ ("bob" :> 2)

AuditEvents ==
    {[user |-> u, user_id |-> UserIdOf[u], created_at |-> d] : u \in Logins, d \in Dates}

AuditLogPages == UNION {[1..k -> AuditEvents] : k \in 0..MaxRecords}

MemberLists ==
    {[i \in 1..Len(q) |-> [login |-> q[i]]] : q \in DistinctSeqs(Logins, MaxMembers)}

RepoLists == {[i \in 1..k |-> [name |-> <<"repo", i>>]] : k \in 0..MaxRepos}

\* listCommits with per_page 1: throws, or returns zero or one commit whose
\* author date may be missing (commit.author?.date).
CommitResponses ==
    {[status |-> "throw", commits |-> <<>>]}
        \cup {[status |-> "ok", commits |-> c] :
                c \in {<<>>} \cup {<<[date |-> d]>> : d \in Dates \cup {Null}}}

\* search.issuesAndPullRequests with per_page 1.
SearchResponses ==
    {[status |-> "throw", items |-> <<>>]}
        \cup {[status |-> "ok", items |-> c] :
                c \in {<<>>} \cup {<<[created_at |-> d]>> : d \in Dates}}

EnvVars ==
    {"X_GITHUB_ORG", "X_GITHUB_ENTERPRISE", "X_GITHUB_AUTH_TOKEN",
     "PORT_CLIENT_ID", "PORT_CLIENT_SECRET"}

Commands == {"get-member-join-dates", "get-developer-stats"}

\* ------------------------------------------------------------------- state
VARIABLES
    env,                \* which environment variables are set
    command,            \* the subcommand on the command line
    pc,                 \* position of the run
    returnTo,           \* where checkRateLimits returns to
    calls,              \* external calls issued so far, oldest first
    exitCode,           \* exit status once pc = "exited", else -1
    caught,             \* message of the error caught at top level, or ""
    resp,               \* x-ratelimit-remaining of the pending guard response
    githubUsers,        \* catalog snapshot (githubUsers.entities)
    joinRecords,        \* result of getMemberAddDates
    members, repos,     \* lists fetched by getDeveloperStats
    memberIdx, repoIdx, \* positions of the two for-of loops
    firstCommitDate,    \* running minimum of the current member
    stats,              \* DeveloperStats pushed so far / returned
    statsReturned,      \* getDeveloperStats has returned
    userIdx,            \* position of the upsert loop
    upserts,            \* arguments of every upsertEntity call, in order
    upsertFailures,     \* identifiers whose upsertEntity call threw
    datesSeen,          \* history: commit dates returned for the current member
    commitReturned,     \* history: some repository returned a commit for the member
    fetchThrew,         \* history: some commit fetch for the current member threw
    twinFirstCommitDate, twinStats  \* the same run with each throwing commit
                                    \* fetch answered by an empty list instead

vars ==
    <<env, command, pc, returnTo, calls, exitCode, caught, resp, githubUsers,
      joinRecords, members, repos, memberIdx, repoIdx, firstCommitDate,
      stats, statsReturned, userIdx, upserts, upsertFailures,
      datesSeen, commitReturned, fetchThrew, twinFirstCommitDate, twinStats>>

catalogVars == <<githubUsers, userIdx, upserts, upsertFailures>>

resolverVars ==
    <<joinRecords, members, repos, memberIdx, repoIdx, firstCommitDate,
      stats, statsReturned, datesSeen, commitReturned, fetchThrew,
      twinFirstCommitDate, twinStats>>

Init ==
    /\ env \in [EnvVars -> BOOLEAN]
    /\ command \in Commands
    /\ pc = "main"
    /\ returnTo = "none"
    /\ calls = <<>>
    /\ exitCode = -1
    /\ caught = ""
    /\ resp = NoResponse
    /\ githubUsers = <<>>
    /\ joinRecords = <<>>
    /\ members = <<>>
    /\ repos = <<>>
    /\ memberIdx = 1
    /\ repoIdx = 1
    /\ firstCommitDate = Null
    /\ stats = <<>>
    /\ statsReturned = FALSE
    /\ userIdx = 1
    /\ upserts = <<>>
    /\ upsertFailures = {}
    /\ datesSeen = {}
    /\ commitReturned = FALSE
    /\ fetchThrew = FALSE
    /\ twinFirstCommitDate = Null
    /\ twinStats = <<>>

\* ------------------------------------------------------------ main, guard
\* catch (error) { console.error('Error:', error) } at the end of main: the
\* error is logged, main returns and the process ends with status 0.
CatchExitsNonZero(message) ==
    /\ pc' = "exited"
    /\ caught' = message
    /\ exitCode' = 1

TopLevelCatch(message) ==
    /\ pc' = "exited"
    /\ caught' = message
    /\ exitCode' = 0

\* process.exit(code)
ProcessExit(code) ==
    /\ pc' = "exited"
    /\ exitCode' = code
    /\ UNCHANGED caught

\* The call main makes once both environment checks have passed.
FirstCall == "checkRateLimits"

\* The call that follows the guard of main.
AfterMainGuardSkipsCatalog == "parseAsync"

AfterMainGuard == "getEntities"

\* main, up to its try block: the two environment checks.
CheckEnv ==
    /\ pc = "main"
    /\ IF ~env["X_GITHUB_ORG"] \/ ~env["X_GITHUB_AUTH_TOKEN"]
          THEN ProcessExit(0) /\ UNCHANGED returnTo
       ELSE IF ~env["PORT_CLIENT_ID"] \/ ~env["PORT_CLIENT_SECRET"]
          THEN ProcessExit(0) /\ UNCHANGED returnTo
       ELSE /\ pc' = FirstCall
            /\ returnTo' = AfterMainGuard
            /\ UNCHANGED <<exitCode, caught>>
    /\ UNCHANGED <<env, command, calls, resp, catalogVars, resolverVars>>

\* checkRateLimits, the awaited octokit.rateLimit.get(): the request fails, or
\* a response arrives carrying the header.
RateLimitGet ==
    /\ pc = "checkRateLimits"
    /\ calls' = Append(calls, "rateLimit.get")
    /\ \/ /\ TopLevelCatch("rateLimit.get failed")
          /\ UNCHANGED resp
       \/ /\ \E h \in RemainingHeaders : resp' = h
          /\ pc' = "checkRateLimits.check"
          /\ UNCHANGED <<exitCode, caught>>
    /\ UNCHANGED <<env, command, returnTo, catalogVars, resolverVars>>

\* Number.parseInt(resp.headers['x-ratelimit-remaining'] || "0")
RemainingDefaultsToOne(header) ==
    IF header.present /\ Truthy(header.text) THEN parseInt(header.text) ELSE 1

Remaining(header) ==
    IF header.present /\ Truthy(header.text) THEN parseInt(header.text) ELSE 0

\* checkRateLimits after the response: throw when remaining === 0, else return.
RateLimitCheck ==
    /\ pc = "checkRateLimits.check"
    /\ IF Remaining(resp) = 0
          THEN TopLevelCatch("Rate limit exceeded")
          ELSE pc' = returnTo /\ UNCHANGED <<exitCode, caught>>
    /\ resp' = NoResponse
    /\ UNCHANGED <<env, command, returnTo, calls, catalogVars, resolverVars>>

\* const githubUsers = await getEntities('githubUser')
GetEntities ==
    /\ pc = "getEntities"
    /\ calls' = Append(calls, "getEntities")
    /\ \/ /\ TopLevelCatch("getEntities failed")
          /\ UNCHANGED githubUsers
       \/ /\ \E snapshot \in CatalogSnapshots : githubUsers' = snapshot
          /\ pc' = "parseAsync"
          /\ UNCHANGED <<exitCode, caught>>
    /\ UNCHANGED <<env, command, returnTo, resp, userIdx, upserts, upsertFailures,
                   resolverVars>>

\* program.parseAsync(): run the action registered for the command.
ParseAsync ==
    /\ pc = "parseAsync"
    /\ IF command = "get-member-join-dates"
          THEN pc' = "get-member-join-dates" /\ UNCHANGED returnTo
          ELSE pc' = "checkRateLimits" /\ returnTo' = "getDeveloperStats"
    /\ UNCHANGED <<env, command, calls, exitCode, caught, resp, catalogVars,
                   resolverVars>>

\* ------------------------------------------------------------ catalog writer
\* A throwing upsertEntity is caught inside the loop body; either way the loop
\* goes on with the next user.
AfterUpsertAborts(outcome, loop) == IF outcome = "throw" THEN "exited" ELSE loop

AfterUpsert(outcome, loop) == loop

\* await upsertEntity('githubUser', user.identifier, user.title,
\*                    {...user.properties, ...fragment}, user.relations)
\* inside try / catch.
UpsertEntity(user, fragment, loop) ==
    /\ calls' = Append(calls, "upsertEntity")
    /\ upserts' = Append(upserts,
                         [type |-> "githubUser",
                          identifier |-> user.identifier,
                          title |-> user.title,
                          properties |-> Spread(user.properties, fragment),
                          relations |-> user.relations])
    /\ \E outcome \in {"ok", "throw"} :
          /\ upsertFailures' =
                IF outcome = "throw" THEN upsertFailures \cup {user.identifier}
                ELSE upsertFailures
          /\ pc' = AfterUpsert(outcome, loop)

\* The for-of loop over githubUsers.entities is exhausted: the action returns,
\* parseAsync resolves, main returns.
LoopEnd(loop) ==
    /\ pc = loop
    /\ userIdx > Len(githubUsers)
    /\ pc' = "exited"
    /\ exitCode' = 0
    /\ UNCHANGED <<env, command, returnTo, calls, caught, resp, catalogVars,
                   resolverVars>>

\* ------------------------------------------------- get-member-join-dates
\* if (!ENTERPRISE_NAME) { console.error(...); process.exit(1) }
EnterpriseCheck ==
    /\ pc = "get-member-join-dates"
    /\ IF ~env["X_GITHUB_ENTERPRISE"]
          THEN ProcessExit(1)
          ELSE pc' = "getMemberAddDates" /\ UNCHANGED <<exitCode, caught>>
    /\ UNCHANGED <<env, command, returnTo, calls, resp, catalogVars, resolverVars>>

\* response.data.map(x => ({user: x.user, userId: x.user_id, createdAt: x.created_at}))
MapEvents(data) ==
    [i \in 1..Len(data) |->
        [user |-> data[i].user, userId |-> data[i].user_id,
         createdAt |-> data[i].created_at]]

\* getMemberAddDates: one audit-log request; a failure escapes to main's catch.
GetMemberAddDates ==
    /\ pc = "getMemberAddDates"
    /\ calls' = Append(calls, "audit-log")
    /\ \/ /\ TopLevelCatch("audit-log failed")
          /\ UNCHANGED joinRecords
       \/ /\ \E data \in AuditLogPages : joinRecords' = MapEvents(data)
          /\ pc' = "joinLoop"
          /\ UNCHANGED <<exitCode, caught>>
    /\ UNCHANGED <<env, command, returnTo, resp, catalogVars, members, repos,
                   memberIdx, repoIdx, firstCommitDate, stats, statsReturned,
                   datesSeen, commitReturned, fetchThrew, twinFirstCommitDate,
                   twinStats>>

\* joinRecords.find(record => record.user === user.identifier)?.createdAt
JoinDateOf(records, identifier) ==
    LET hits == {i \in 1..Len(records) : records[i].user = identifier}
    IN  IF hits = {} THEN Null
        ELSE records[CHOOSE i \in hits : \A j \in hits : i <= j].createdAt

\* if (joinDate) { ... upsert ... }
WritesJoinDate(joinDate) == Truthy(joinDate)

\* One iteration of the loop of get-member-join-dates.
JoinLoopStep ==
    /\ pc = "joinLoop"
    /\ userIdx <= Len(githubUsers)
    /\ LET user == githubUsers[userIdx]
           joinDate == JoinDateOf(joinRecords, user.identifier)
       IN  IF WritesJoinDate(joinDate)
              THEN UpsertEntity(user, "join_date" :> NewDate(joinDate), "joinLoop")
              ELSE UNCHANGED <<pc, calls, upserts, upsertFailures>>
    /\ userIdx' = userIdx + 1
    /\ UNCHANGED <<env, command, returnTo, exitCode, caught, resp, githubUsers,
                   resolverVars>>

JoinLoopEnd == LoopEnd("joinLoop")

\* ------------------------------------------------------ getDeveloperStats
\* catch (error) { throw new Error(`Failed to fetch developer stats: ...`) }:
\* a failing member or repository listing escapes to main's catch.
ListMembers ==
    /\ pc = "getDeveloperStats"
    /\ calls' = Append(calls, "orgs.listMembers")
    /\ \/ /\ TopLevelCatch("Failed to fetch developer stats")
          /\ UNCHANGED members
       \/ /\ \E data \in MemberLists : members' = data
          /\ pc' = "repos.listForOrg"
          /\ UNCHANGED <<exitCode, caught>>
    /\ UNCHANGED <<env, command, returnTo, resp, catalogVars, joinRecords, repos,
                   memberIdx, repoIdx, firstCommitDate, stats, statsReturned,
                   datesSeen, commitReturned, fetchThrew, twinFirstCommitDate,
                   twinStats>>

ListForOrg ==
    /\ pc = "repos.listForOrg"
    /\ calls' = Append(calls, "repos.listForOrg")
    /\ \/ /\ TopLevelCatch("Failed to fetch developer stats")
          /\ UNCHANGED repos
       \/ /\ \E data \in RepoLists : repos' = data
          /\ pc' = "memberLoop"
          /\ UNCHANGED <<exitCode, caught>>
    /\ UNCHANGED <<env, command, returnTo, resp, catalogVars, joinRecords, members,
                   memberIdx, repoIdx, firstCommitDate, stats, statsReturned,
                   datesSeen, commitReturned, fetchThrew, twinFirstCommitDate,
                   twinStats>>

\* commitDate && (!firstCommitDate || commitDate < firstCommitDate)
ReplacesWhenLater(commitDate, first) ==
    Truthy(commitDate) /\ (~Truthy(first) \/ StringLess(first, commitDate))

Replaces(commitDate, first) ==
    Truthy(commitDate) /\ (~Truthy(first) \/ StringLess(commitDate, first))

\* The body of try: commits[0].commit.author?.date against the running minimum.
AfterCommits(commits, first) ==
    IF Len(commits) > 0
       THEN LET commitDate == commits[1].date
            IN  IF Replaces(commitDate, first) THEN commitDate ELSE first
       ELSE first

\* catch (error) { console.warn(...) }: the running minimum is left as it is.
AfterFetchErrorForgets(first) == Null

AfterFetchError(first) == first

\* One iteration of the repository loop, for either outcome of listCommits.
AfterListCommits(response, first) ==
    IF response.status = "throw" THEN AfterFetchError(first)
    ELSE AfterCommits(response.commits, first)

\* stats.push({login, firstCommitDate, firstPRDate})
PushUnlessEmpty(list, login, commitDate, prDate) ==
    IF Truthy(commitDate) \/ Truthy(prDate)
       THEN Append(list, [login |-> login, firstCommitDate |-> commitDate,
                          firstPRDate |-> prDate])
       ELSE list

Push(list, login, commitDate, prDate) ==
    Append(list, [login |-> login, firstCommitDate |-> commitDate,
                  firstPRDate |-> prDate])

\* The response a throwing fetch is compared with: listCommits returning [].
AsEmptyResult(response) ==
    IF response.status = "throw" THEN [status |-> "ok", commits |-> <<>>]
    ELSE response

\* await octokit.repos.listCommits(...) for the current member and repository.
ListCommits ==
    /\ pc = "memberLoop"
    /\ memberIdx <= Len(members)
    /\ repoIdx <= Len(repos)
    /\ calls' = Append(calls, "repos.listCommits")
    /\ \E response \in CommitResponses :
          /\ firstCommitDate' = AfterListCommits(response, firstCommitDate)
          /\ twinFirstCommitDate' =
                AfterListCommits(AsEmptyResult(response), twinFirstCommitDate)
          /\ datesSeen' =
                datesSeen \cup {c.date : c \in {x \in {response.commits[i] :
                    i \in 1..Len(response.commits)} : Truthy(x.date)}}
          /\ commitReturned' = (commitReturned \/ Len(response.commits) > 0)
          /\ fetchThrew' = (fetchThrew \/ response.status = "throw")
    /\ repoIdx' = repoIdx + 1
    /\ UNCHANGED <<env, command, pc, returnTo, exitCode, caught, resp, catalogVars,
                   joinRecords, members, repos, memberIdx, stats, statsReturned,
                   twinStats>>

\* if (pulls.items.length > 0) firstPRDate = pulls.items[0].created_at; a
\* throwing search leaves firstPRDate null.
FirstPRDate(response) ==
    IF response.status = "ok" /\ Len(response.items) > 0
       THEN response.items[1].created_at
       ELSE Null

\* The repository loop of the current member is done: the PR search, the push
\* and the start of the next member's iteration (both dates null again).
SearchPRs ==
    /\ pc = "memberLoop"
    /\ memberIdx <= Len(members)
    /\ repoIdx > Len(repos)
    /\ calls' = Append(calls, "search.issuesAndPullRequests")
    /\ \E response \in SearchResponses :
          /\ stats' = Push(stats, members[memberIdx].login, firstCommitDate,
                           FirstPRDate(response))
          /\ twinStats' = Push(twinStats, members[memberIdx].login,
                               twinFirstCommitDate, FirstPRDate(response))
    /\ memberIdx' = memberIdx + 1
    /\ repoIdx' = 1
    /\ firstCommitDate' = Null
    /\ twinFirstCommitDate' = Null
    /\ datesSeen' = {}
    /\ commitReturned' = FALSE
    /\ fetchThrew' = FALSE
    /\ UNCHANGED <<env, command, pc, returnTo, exitCode, caught, resp, catalogVars,
                   joinRecords, members, repos, statsReturned>>

\* return stats
ReturnStats ==
    /\ pc = "memberLoop"
    /\ memberIdx > Len(members)
    /\ statsReturned' = TRUE
    /\ pc' = "statsLoop"
    /\ UNCHANGED <<env, command, returnTo, calls, exitCode, caught, resp,
                   catalogVars, joinRecords, members, repos, memberIdx, repoIdx,
                   firstCommitDate, stats, datesSeen, commitReturned, fetchThrew,
                   twinFirstCommitDate, twinStats>>

\* --------------------------------------------------- get-developer-stats
\* stats.find(record => record.login === user.identifier) || {}
StatsOf(list, identifier) ==
    LET hits == {i \in 1..Len(list) : list[i].login = identifier}
    IN  IF hits = {} THEN [firstCommitDate |-> Null, firstPRDate |-> Null]
        ELSE LET r == list[CHOOSE i \in hits : \A j \in hits : i <= j]
             IN  [firstCommitDate |-> r.firstCommitDate, firstPRDate |-> r.firstPRDate]

\* if (!firstCommitDate && !firstPRDate) continue
SkipsNobody(commitDate, prDate) == FALSE

Skips(commitDate, prDate) == ~Truthy(commitDate) /\ ~Truthy(prDate)

\* props['first_commit'] = new Date(firstCommitDate), props['first_pr'] = ...
Props(commitDate, prDate) ==
    (IF Truthy(commitDate) THEN "first_commit" :> NewDate(commitDate) ELSE EmptyMap)
        @@ (IF Truthy(prDate) THEN "first_pr" :> NewDate(prDate) ELSE EmptyMap)

\* One iteration of the loop of get-developer-stats.
StatsLoopStep ==
    /\ pc = "statsLoop"
    /\ userIdx <= Len(githubUsers)
    /\ LET user == githubUsers[userIdx]
           found == StatsOf(stats, user.identifier)
       IN  IF Skips(found.firstCommitDate, found.firstPRDate)
              THEN UNCHANGED <<pc, calls, upserts, upsertFailures>>
              ELSE UpsertEntity(user, Props(found.firstCommitDate, found.firstPRDate),
                                "statsLoop")
    /\ userIdx' = userIdx + 1
    /\ UNCHANGED <<env, command, returnTo, exitCode, caught, resp, githubUsers,
                   resolverVars>>

StatsLoopEnd == LoopEnd("statsLoop")

\* ------------------------------------------------------------ specification
Next ==
    \/ CheckEnv
    \/ RateLimitGet
    \/ RateLimitCheck
    \/ GetEntities
    \/ ParseAsync
    \/ EnterpriseCheck
    \/ GetMemberAddDates
    \/ JoinLoopStep
    \/ JoinLoopEnd
    \/ ListMembers
    \/ ListForOrg
    \/ ListCommits
    \/ SearchPRs
    \/ ReturnStats
    \/ StatsLoopStep
    \/ StatsLoopEnd

Spec == Init /\ [][Next]_vars

\* ------------------------------------------------------------------ claims
Instant(date) == 10 * date[1] + date[2]

UpsertedIds == [i \in 1..Len(upserts) |-> upserts[i].identifier]

CallIndices(kinds) == {i \in 1..Len(calls) : calls[i] \in kinds}

ResolverCalls ==
    {"audit-log", "orgs.listMembers", "repos.listForOrg", "repos.listCommits",
     "search.issuesAndPullRequests"}

\* The resolver of the command has returned its records to the action.
ResolverReturned ==
    \/ statsReturned
    \/ "audit-log" \in {calls[i] : i \in 1..Len(calls)} /\ caught # "audit-log failed"

\* The resolver's output holds a fact for the identifier.
HasFact(identifier) ==
    IF command = "get-member-join-dates"
       THEN \E i \in 1..Len(joinRecords) : joinRecords[i].user = identifier
       ELSE \E i \in 1..Len(stats) :
               /\ stats[i].login = identifier
               /\ stats[i].firstCommitDate # Null \/ stats[i].firstPRDate # Null

\* The fact keys written for the identifier, each with the instant it must carry.
FactInstants(identifier, key) ==
    IF command = "get-member-join-dates"
       THEN {Instant(joinRecords[i].createdAt) :
               i \in {j \in 1..Len(joinRecords) :
                        key = "join_date" /\ joinRecords[j].user = identifier}}
       ELSE {Instant(d) : d \in
               {stats[i].firstCommitDate :
                   i \in {j \in 1..Len(stats) :
                            /\ key = "first_commit"
                            /\ stats[j].login = identifier
                            /\ stats[j].firstCommitDate # Null}}
               \cup {stats[i].firstPRDate :
                   i \in {j \in 1..Len(stats) :
                            /\ key = "first_pr"
                            /\ stats[j].login = identifier
                            /\ stats[j].firstPRDate # Null}}}

FactKeys(identifier) ==
    {k \in {"join_date", "first_commit", "first_pr"} : FactInstants(identifier, k) # {}}

\* C1: every upsert is a non-destructive merge.  The properties passed are the
\* catalog user's snapshot properties overlaid with the new fact keys: each fact
\* key carries the resolved date, every other existing key keeps its value, no
\* key is dropped or invented, and relations, identifier and title are those of
\* the snapshot.
C1_NonDestructiveMerge ==
    \A i \in 1..Len(upserts) :
        \E j \in 1..Len(githubUsers) :
            LET u == upserts[i]
                user == githubUsers[j]
                keys == FactKeys(user.identifier)
            IN  /\ u.identifier = user.identifier
                /\ u.title = user.title
                /\ u.relations = user.relations
                /\ DOMAIN u.properties = (DOMAIN user.properties) \cup keys
                /\ \A k \in (DOMAIN user.properties) \ keys :
                      u.properties[k] = user.properties[k]
                /\ \A k \in keys \cap DOMAIN u.properties :
                      /\ u.properties[k].kind = "Date"
                      /\ u.properties[k].val \in FactInstants(user.identifier, k)

\* An upsert that overwrote an existing fact key and carried another existing
\* key and a new key through.
C1_Witness ==
    \E i \in 1..Len(upserts) :
        LET props == upserts[i].properties
        IN  /\ {"team", "first_commit", "first_pr"} \subseteq DOMAIN props
            /\ props["team"] = StringValue(1)
            /\ props["first_commit"].kind = "Date"
            /\ props["first_pr"] = StringValue(4)

\* C2: getDeveloperStats holds one record per member processed, in member
\* order, at every point of the member loop, and exactly |M| records when it
\* returns, whatever fetches failed.
C2_OneRecordPerMember ==
    /\ pc = "memberLoop" =>
          /\ Len(stats) = memberIdx - 1
          /\ \A i \in 1..Len(stats) : stats[i].login = members[i].login
    /\ statsReturned =>
          /\ Len(stats) = Len(members)
          /\ \A i \in 1..Len(members) : stats[i].login = members[i].login

\* Two members returned, the second with both dates absent.
C2_Witness ==
    /\ statsReturned
    /\ Len(members) = 2
    /\ Len(stats) = 2
    /\ stats[2].firstCommitDate = Null
    /\ stats[2].firstPRDate = Null
    /\ stats[1].firstCommitDate # Null

RepoLoopDone ==
    pc = "memberLoop" /\ memberIdx <= Len(members) /\ repoIdx > Len(repos)

IsEarliestSeen ==
    /\ firstCommitDate \in datesSeen
    /\ \A d \in datesSeen : Instant(firstCommitDate) <= Instant(d)

\* C3 as stated: firstCommitDate is the earliest date over the repositories
\* that returned a commit, and null exactly when no repository returned one.
C3_AsStated ==
    RepoLoopDone =>
        /\ datesSeen # {} => IsEarliestSeen
        /\ firstCommitDate = Null <=> ~commitReturned

\* C3 amended: firstCommitDate is the earliest date over the repositories that
\* returned a commit carrying an author date, whatever the order of the
\* repositories, and null exactly when no repository returned such a commit.
C3_EarliestDatedCommit ==
    pc = "memberLoop" =>
        /\ datesSeen # {} => IsEarliestSeen
        /\ firstCommitDate = Null <=> datesSeen = {}

\* Three repositories returned three different dates for the member.
C3_Witness ==
    /\ RepoLoopDone
    /\ Len(repos) = 3
    /\ Cardinality(datesSeen) = 3
    /\ firstCommitDate = DateString(1)

\* C4: a catalog user for whom the resolver produced no fact is never upserted.
C4_NoFactNoUpsert ==
    \A j \in 1..Len(githubUsers) :
        ~HasFact(githubUsers[j].identifier) =>
            \A i \in 1..Len(upserts) :
                upserts[i].identifier # githubUsers[j].identifier

\* A finished run that skipped a user without facts and wrote another.
C4_Witness ==
    /\ pc = "exited"
    /\ ResolverReturned
    /\ Len(upserts) = 1
    /\ \E j \in 1..Len(githubUsers) : ~HasFact(githubUsers[j].identifier)
    /\ \E i \in 1..Len(stats) :
          stats[i].firstCommitDate = Null /\ stats[i].firstPRDate = Null

ReportsNone(header) == ~header.present \/ header.text = <<0>>

ReportsSome(header) ==
    /\ header.present
    /\ header.text # <<>>
    /\ \E i \in 1..Len(header.text) : header.text[i] > 0

\* C5: a guard response reporting remaining = 0, or carrying no remaining
\* header, makes checkRateLimits fail, and the guard request is then the last
\* external call of the run; a response reporting remaining > 0 lets the run
\* continue where the guard was called.
C5_RateLimitGuard ==
    /\ [](caught = "Rate limit exceeded" =>
            /\ pc = "exited"
            /\ calls[Len(calls)] = "rateLimit.get"
            /\ upserts = <<>>)
    /\ [][pc = "checkRateLimits.check" =>
            /\ ReportsNone(resp) =>
                  pc' = "exited" /\ caught' = "Rate limit exceeded" /\ calls' = calls
            /\ ReportsSome(resp) => pc' = returnTo /\ caught' = "" /\ exitCode' = -1]_vars
    /\ [][pc = "exited" => calls' = calls]_vars

\* The guard of get-developer-stats failed after the catalog was read.
C5_Witness ==
    /\ caught = "Rate limit exceeded"
    /\ Len(calls) = 3
    /\ githubUsers # <<>>

RequiredVars ==
    {"X_GITHUB_ORG", "X_GITHUB_AUTH_TOKEN", "PORT_CLIENT_ID", "PORT_CLIENT_SECRET"}
        \cup (IF command = "get-member-join-dates" THEN {"X_GITHUB_ENTERPRISE"} ELSE {})

\* C6: a run in which a required environment variable is absent exits before
\* any network call is made.
C6_AbsentVarNoNetwork ==
    (\E v \in RequiredVars : ~env[v]) => calls = <<>>

\* C7: a failing upsert aborts nothing.  While and after the upsert loop runs,
\* the upsert attempts are exactly the catalog users with a fact among those
\* already visited, once each and in snapshot order; the loop visits every
\* user and the run ends without a caught error.
C7_UpsertFailureIsolated ==
    ResolverReturned =>
        /\ UpsertedIds =
              SelectSeq([j \in 1..(userIdx - 1) |-> githubUsers[j].identifier], HasFact)
        /\ pc \in {"joinLoop", "statsLoop", "exited"}
        /\ pc = "exited" =>
              userIdx = Len(githubUsers) + 1 /\ caught = "" /\ exitCode = 0

\* The first user's upsert failed and the second user was still attempted.
C7_Witness ==
    /\ pc = "exited"
    /\ Len(upserts) = 2
    /\ upserts[1].identifier \in upsertFailures
    /\ upserts[2].identifier \notin upsertFailures

\* C8: a throwing commit fetch is treated as an empty result.  The run and
\* its twin, in which every throwing fetch answered with an empty list, agree
\* on the running minimum and on every DeveloperStats record.
C8_ThrowIsNoCommit ==
    /\ firstCommitDate = twinFirstCommitDate
    /\ stats = twinStats

\* A fetch threw for the second member after an earlier repository had given
\* it a date, and the first member's record holds a date.
C8_Witness ==
    /\ RepoLoopDone
    /\ fetchThrew
    /\ firstCommitDate # Null
    /\ Len(stats) = 1
    /\ stats[1].firstCommitDate # Null

\* C9: the guard precedes every stats-fetching call, the catalog read precedes
\* every resolver call, every upsert follows the resolver's return and all of
\* its calls, and a resolver that failed fatally leaves zero upserts.
C9_CallOrder ==
    /\ \A i \in CallIndices(ResolverCalls) :
          /\ \E j \in CallIndices({"rateLimit.get"}) : j < i
          /\ \E j \in CallIndices({"getEntities"}) : j < i
    /\ \A i \in CallIndices({"upsertEntity"}) :
          \A j \in CallIndices(ResolverCalls \cup {"rateLimit.get", "getEntities"}) : j < i
    /\ upserts # <<>> => ResolverReturned
    /\ Len(upserts) = Cardinality(CallIndices({"upsertEntity"}))
    /\ caught \in {"Failed to fetch developer stats", "audit-log failed"} =>
          upserts = <<>>

\* A get-developer-stats run that went through every stage.
C9_Witness ==
    /\ pc = "exited"
    /\ command = "get-developer-stats"
    /\ Len(upserts) = 2
    /\ CallIndices({"repos.listCommits"}) # {}

EnterpriseMissing ==
    /\ command = "get-member-join-dates"
    /\ ~env["X_GITHUB_ENTERPRISE"]
    /\ calls = <<"rateLimit.get", "getEntities">>
    /\ caught = ""

====
